---- MODULE Spec2Model ----
(***************************************************************************)
(* Model of the Smash PDF command layer (src-tauri/src): the Tauri         *)
(* commands compress_pdf, merge_pdfs, split_pdf, get_pdf_page_count,       *)
(* protect_pdf, unlock_pdf and the Ghostscript / qpdf wrappers they call.  *)
(*                                                                         *)
(* Strings that the code takes apart (paths, process output) are finite    *)
(* sequences of one-character strings.  An Option<T> is a sequence of      *)
(* length 0 (None) or 1 (Some).  The external binaries are opaque: what a  *)
(* spawned process does (spawn error, exit code, bytes written, stdout) is *)
(* an input of the action that spawns it.                                  *)
(*                                                                         *)
(* The commands are stateless async functions (lib.rs registers them with  *)
(* no managed state): one invocation leaves nothing to the next but the    *)
(* file system.  A behaviour is one invocation, of any command with any    *)
(* arguments, from one of the initial environments; the file system and    *)
(* the tool installation change during it only through the command.        *)
(*                                                                         *)
(* The page numbers of Spec are small.  EveryNSpec runs the chunking loop  *)
(* of split_pdf on its own, pass by pass, on u32 values up to 2^32 - 1.    *)
(***************************************************************************)
EXTENDS Integers, Sequences, FiniteSets, TLC

VARIABLES
    os,         \* target_os of the build: "macos", "windows" or "linux"
    onPath,     \* command names which::which resolves
    installed,  \* paths at which a tool binary exists
    fs,         \* regular files: path -> byte size
    dirs,       \* directories that exist
    req,        \* the last command invoked and its arguments
    result,     \* what that command returned
    log,        \* external processes spawned for that command, in order
    made,       \* files and directories that command created
    docs,       \* what the files written by that command hold: path -> pages
    loop        \* the every-n loop of split_pdf run on its own, in u32 arithmetic

vars == <<os, onPath, installed, fs, dirs, req, result, log, made, docs, loop>>

\* the value of a one-element set; Only({e(r) : r \in {x}}) is e with r bound
\* to the value of x (the Rust `let r = x;`)
Only(S) == CHOOSE v \in S : TRUE

None == <<>>
Some(x) == <<x>>
IsSome(o) == Len(o) = 1
Unwrap(o) == o[1]

(***************************************************************************)
(* Bounds of the model.                                                    *)
(***************************************************************************)
MaxParts == 4      \* passes of the every-n loop that are followed
MaxPages == 3      \* largest page count a document reports

(***************************************************************************)
(* Character helpers.                                                      *)
(***************************************************************************)
UpperChars == <<"A","B","C","D","E","F","G","H","I","J","K","L","M",
                "N","O","P","Q","R","S","T","U","V","W","X","Y","Z">>
LowerChars == <<"a","b","c","d","e","f","g","h","i","j","k","l","m",
                "n","o","p","q","r","s","t","u","v","w","x","y","z">>
DigitChars == <<"0","1","2","3","4","5","6","7","8","9">>

\* u8::to_ascii_lowercase, as used by eq_ignore_ascii_case
ToAsciiLower(c) ==
    IF \E i \in 1..Len(UpperChars) : UpperChars[i] = c
    THEN LowerChars[CHOOSE i \in 1..Len(UpperChars) : UpperChars[i] = c]
    ELSE c

EqIgnoreAsciiCase(s, t) ==
    /\ Len(s) = Len(t)
    /\ \A i \in 1..Len(s) : ToAsciiLower(s[i]) = ToAsciiLower(t[i])

\* u32 Display ("{}")
RECURSIVE U32ToString(_)
U32ToString(n) ==
    IF n < 10 THEN <<DigitChars[n + 1]>>
    ELSE U32ToString(n \div 10) \o <<DigitChars[(n % 10) + 1]>>

IsDigit(c) == \E i \in 1..Len(DigitChars) : DigitChars[i] = c
DigitVal(c) == (CHOOSE i \in 1..Len(DigitChars) : DigitChars[i] = c) - 1

RECURSIVE DigitsValue(_)
DigitsValue(s) ==
    IF Len(s) = 0 THEN 0
    ELSE 10 * DigitsValue(SubSeq(s, 1, Len(s) - 1)) + DigitVal(s[Len(s)])

\* the digits without their leading zeros
RECURSIVE StripZeros(_)
StripZeros(s) == IF Len(s) > 1 /\ s[1] = "0" THEN StripZeros(Tail(s)) ELSE s

\* s <= t for digit strings of the same length
RECURSIVE DigitsLeq(_, _)
DigitsLeq(s, t) ==
    IF Len(s) = 0 THEN TRUE
    ELSE IF DigitVal(s[1]) # DigitVal(t[1]) THEN DigitVal(s[1]) < DigitVal(t[1])
    ELSE DigitsLeq(Tail(s), Tail(t))

U32MaxDigits == <<"4","2","9","4","9","6","7","2","9","5">>

\* whether the digit string denotes a value of at most u32::MAX
FitsU32(s) ==
    LET d == StripZeros(s)
    IN  Len(d) < Len(U32MaxDigits)
        \/ (Len(d) = Len(U32MaxDigits) /\ DigitsLeq(d, U32MaxDigits))

\* str::parse::<u32>: an optional '+', then one or more digits, no overflow
ParseU32(s) ==
    LET body == IF Len(s) > 0 /\ s[1] = "+" THEN Tail(s) ELSE s
    IN  IF Len(body) = 0 \/ \E i \in 1..Len(body) : ~IsDigit(body[i]) THEN None
        ELSE IF ~FitsU32(body) THEN None
        ELSE Some(DigitsValue(body))

IsWhite(c) == c \in {" ", "\n", "\t", "\r"}

\* str::trim
RECURSIVE TrimStart(_)
TrimStart(s) == IF Len(s) > 0 /\ IsWhite(s[1]) THEN TrimStart(Tail(s)) ELSE s
RECURSIVE TrimEnd(_)
TrimEnd(s) ==
    IF Len(s) > 0 /\ IsWhite(s[Len(s)]) THEN TrimEnd(SubSeq(s, 1, Len(s) - 1)) ELSE s
Trim(s) == TrimEnd(TrimStart(s))

\* str::lines().last(): the text after the last line feed of a string that
\* does not end in one (None for the empty string)
LastLine(s) ==
    IF Len(s) = 0 THEN None
    ELSE LET body == IF s[Len(s)] = "\n" THEN SubSeq(s, 1, Len(s) - 1) ELSE s
             nl == {i \in 1..Len(body) : body[i] = "\n"}
             from == IF nl = {} THEN 1
                     ELSE (CHOOSE i \in nl : \A j \in nl : j <= i) + 1
             line == SubSeq(body, from, Len(body))
         IN  Some(IF Len(line) > 0 /\ line[Len(line)] = "\r"
                  THEN SubSeq(line, 1, Len(line) - 1) ELSE line)

(***************************************************************************)
(* std::path::Path on character sequences.                                 *)
(***************************************************************************)
IsSep(c) == c = "/" \/ (os = "windows" /\ c = "\\")
MainSep == IF os = "windows" THEN "\\" ELSE "/"

\* the path without the separators that end it (a root stays)
RECURSIVE StripTrailingSeps(_)
StripTrailingSeps(p) ==
    IF Len(p) > 1 /\ IsSep(p[Len(p)])
    THEN StripTrailingSeps(SubSeq(p, 1, Len(p) - 1))
    ELSE p

\* index of the last separator of p, 0 when it has none
LastSepIndex(p) ==
    LET S == {i \in 1..Len(p) : IsSep(p[i])}
    IN  IF S = {} THEN 0 ELSE CHOOSE i \in S : \A j \in S : j <= i

IsRoot(p) == Len(p) = 1 /\ IsSep(p[1])

\* Path::file_name
FileName(p) ==
    LET q == StripTrailingSeps(p)
        name == SubSeq(q, LastSepIndex(q) + 1, Len(q))
    IN  IF Len(q) = 0 \/ IsRoot(q) \/ name = <<".", ".">> THEN None
        ELSE Some(name)

\* Path::parent
Parent(p) ==
    LET q == StripTrailingSeps(p)
        k == LastSepIndex(q)
    IN  IF Len(q) = 0 \/ IsRoot(q) THEN None
        ELSE IF k = 0 THEN Some(<<>>)
        ELSE IF k = 1 THEN Some(<<q[1]>>)
        ELSE Some(StripTrailingSeps(SubSeq(q, 1, k - 1)))

\* index of the last '.' of a file name, 0 when it has none
LastDotIndex(name) ==
    LET S == {i \in 1..Len(name) : name[i] = "."}
    IN  IF S = {} THEN 0 ELSE CHOOSE i \in S : \A j \in S : j <= i

\* rsplit_file_at_dot: <<before, after>> as Options
SplitAtDot(name) ==
    LET k == LastDotIndex(name)
    IN  IF name = <<".", ".">> THEN <<Some(name), None>>
        ELSE IF k = 0 THEN <<None, Some(name)>>
        ELSE IF k = 1 THEN <<Some(name), None>>
        ELSE <<Some(SubSeq(name, 1, k - 1)), Some(SubSeq(name, k + 1, Len(name)))>>

\* Path::file_stem
FileStem(p) ==
    IF ~IsSome(FileName(p)) THEN None
    ELSE LET ba == SplitAtDot(Unwrap(FileName(p)))
         IN  IF IsSome(ba[1]) THEN ba[1] ELSE ba[2]

\* Path::extension
Extension(p) ==
    IF ~IsSome(FileName(p)) THEN None
    ELSE LET ba == SplitAtDot(Unwrap(FileName(p)))
         IN  IF IsSome(ba[1]) THEN ba[2] ELSE None

\* Path::join
Join(base, name) ==
    IF Len(name) > 0 /\ IsSep(name[1]) THEN name
    ELSE IF Len(base) = 0 THEN name
    ELSE IF IsSep(base[Len(base)]) THEN base \o name
    ELSE base \o <<MainSep>> \o name

\* Path::exists
Exists(p, files, ds) == p \in DOMAIN files \/ p \in ds

(***************************************************************************)
(* Results, errors and the effects of a command.                           *)
(*   An error is its format string and the values interpolated into it.    *)
(*   A log entry is one spawned process: the binary, its arguments (format *)
(*   string and interpolated value), its exit code, the size of the file   *)
(*   it wrote and its standard output.                                     *)
(*   A world w is what a command can change: files, directories, the       *)
(*   processes it spawned, and the paths it created.                       *)
(***************************************************************************)
Err(msg, info) == [msg |-> msg, info |-> info]

\* the values a message interpolates
Text(t) == [kind |-> "text", v |-> t]
Chars(c) == [kind |-> "chars", v |-> c]
PathV(p) == [kind |-> "path", v |-> p]
U32V(n) == [kind |-> "u32", v |-> n]
ExitCode(c) == [kind |-> "exit_code", v |-> c]
IoError == [kind |-> "io_error", v |-> <<>>]
NoErr == Err("", <<>>)

Ok(v, w) == [ok |-> TRUE, val |-> v, err |-> NoErr, w |-> w]
Fail(e, w) == [ok |-> FALSE, val |-> <<>>, err |-> e, w |-> w]

Arg(text, val) == [text |-> text, val |-> val]

\* what one run of an external binary does: whether it could be started, its
\* exit code (None when killed by a signal), the size of the file it wrote
\* (None when it wrote none) and its standard output
Outcome(spawned, code, size, stdout) ==
    [spawned |-> spawned, code |-> code, size |-> size, stdout |-> stdout]

\* the runs of an external binary
SpawnFailed == Outcome(FALSE, None, None, <<>>)
Exited(code, size, stdout) == Outcome(TRUE, code, size, stdout)
OkRun == Exited(Some(0), Some(1), <<>>)

\* ExitStatus::success
Success(o) == o.code = Some(0)

\* Command::new(exe).args(args).status() / .output(): the process is recorded
Spawn(w, tool, exe, args, o) ==
    [w EXCEPT !.log = Append(@, [tool |-> tool, exe |-> exe, args |-> args,
                                 code |-> o.code, size |-> o.size,
                                 stdout |-> o.stdout])]

\* A page of a document is named by the file it came from, as that file was
\* when the command started, and its number there; no = 0 stands for all the
\* pages of that file, in order.
Whole(path) == [of |-> path, no |-> 0]

\* the pages a file holds
Contents(w, path) == IF path \in DOMAIN w.docs THEN w.docs[path] ELSE <<Whole(path)>>

\* pages start..end of a file (-dFirstPage, -dLastPage)
PagesFrom(w, input, start, end) ==
    IF input \in DOMAIN w.docs
    THEN SubSeq(w.docs[input], start, IF end < Len(w.docs[input]) THEN end
                                      ELSE Len(w.docs[input]))
    ELSE [i \in 1..(end - start + 1) |-> [of |-> input, no |-> start + i - 1]]

\* the pages of the files `inputs`, one file after the other
RECURSIVE ConcatContents(_, _)
ConcatContents(w, inputs) ==
    IF Len(inputs) = 0 THEN <<>>
    ELSE Contents(w, Head(inputs)) \o ConcatContents(w, Tail(inputs))

\* the binary writes `path` (when it writes anything); a run that exits with
\* status 0 and writes its output writes the pages it was asked for
WriteFile(w, path, size, pages) ==
    IF IsSome(size)
    THEN [w EXCEPT !.fs = (path :> Unwrap(size)) @@ @, !.made = @ \cup {path},
                   !.docs = (path :> pages) @@ @]
    ELSE w

\* get_file_size (utils.rs): std::fs::metadata(path)?.len()
get_file_size(path, w) ==
    IF path \in DOMAIN w.fs THEN Some(w.fs[path])
    ELSE IF path \in w.dirs THEN Some(0)
    ELSE None

(***************************************************************************)
(* utils.rs                                                                *)
(***************************************************************************)
PdfExt == <<"p", "d", "f">>
DotPdf == <<".">> \o PdfExt

\* validate_pdf: None when the path is accepted, Some(error) otherwise
\* validate_pdf with a bug: the extension is looked at before the file
validate_pdf_ExtensionFirst(path, w) ==
    IF ~(IsSome(Extension(path)) /\ EqIgnoreAsciiCase(Unwrap(Extension(path)), PdfExt))
    THEN Some(Err("File is not a PDF", <<>>))
    ELSE IF ~Exists(path, w.fs, w.dirs)
         THEN Some(Err("File not found: {}", <<PathV(path)>>))
         ELSE None

validate_pdf(path, w) ==
    IF ~Exists(path, w.fs, w.dirs)
    THEN Some(Err("File not found: {}", <<PathV(path)>>))
    ELSE IF IsSome(Extension(path)) /\ EqIgnoreAsciiCase(Unwrap(Extension(path)), PdfExt)
         THEN None
         ELSE Some(Err("File is not a PDF", <<>>))

\* generate_output_path
\* generate_output_path with a bug: the file name is used where the stem is meant
generate_output_path_KeepsExtension(input_path, suffix) ==
    LET name == IF IsSome(FileName(input_path)) THEN Unwrap(FileName(input_path))
                ELSE <<>>
        parent == IF IsSome(Parent(input_path)) THEN Unwrap(Parent(input_path))
                  ELSE <<".">>
    IN  Join(parent, name \o suffix \o DotPdf)

generate_output_path(input_path, suffix) ==
    LET stem == IF IsSome(FileStem(input_path)) THEN Unwrap(FileStem(input_path))
                ELSE <<>>
        parent == IF IsSome(Parent(input_path)) THEN Unwrap(Parent(input_path))
                  ELSE <<".">>
    IN  Join(parent, stem \o suffix \o DotPdf)

(***************************************************************************)
(* ghostscript.rs                                                          *)
(***************************************************************************)
GsCandidates ==
    IF os = "windows" THEN
        << "C:\\Program Files\\gs\\gs10.04.0\\bin\\gswin64c.exe",
           "C:\\Program Files\\gs\\gs10.03.0\\bin\\gswin64c.exe",
           "C:\\Program Files\\gs\\gs10.02.0\\bin\\gswin64c.exe",
           "C:\\Program Files\\gs\\gs10.01.0\\bin\\gswin64c.exe",
           "C:\\Program Files\\gs\\gs10.00.0\\bin\\gswin64c.exe",
           "C:\\Program Files\\gs\\gs9.56.1\\bin\\gswin64c.exe",
           "C:\\Program Files (x86)\\gs\\gs10.04.0\\bin\\gswin32c.exe" >>
    ELSE IF os = "macos" THEN
        << "/opt/homebrew/bin/gs", "/usr/local/bin/gs", "/opt/local/bin/gs" >>
    ELSE << "/usr/bin/gs", "/usr/local/bin/gs" >>

\* the first candidate that exists
FirstInstalled(cands) ==
    LET I == {i \in 1..Len(cands) : cands[i] \in installed}
    IN  IF I = {} THEN None ELSE Some(cands[CHOOSE i \in I : \A j \in I : i <= j])

\* find_ghostscript: which::which("gs"), then the install paths of the OS
find_ghostscript ==
    IF "gs" \in onPath THEN Some("gs") ELSE FirstInstalled(GsCandidates)

\* GsInstallHint with a bug: Windows is not told apart
GsInstallHint_UnixOnly ==
    IF os = "macos" THEN "Install with: brew install ghostscript"
    ELSE "Install with: sudo apt install ghostscript"

GsInstallHint ==
    IF os = "macos" THEN "Install with: brew install ghostscript"
    ELSE IF os = "windows" THEN "Download from: https://ghostscript.com/releases/gsdnld.html"
    ELSE "Install with: sudo apt install ghostscript"

\* get_gs
get_gs(w) ==
    IF IsSome(find_ghostscript) THEN Ok(Unwrap(find_ghostscript), w)
    ELSE Fail(Err("Ghostscript not found. {}", <<Text(GsInstallHint)>>), w)

GsSpawnError == Err("Failed to run Ghostscript: {}", <<IoError>>)

\* ghostscript::get_version
get_version(o, w) ==
    LET gs == get_gs(w) IN
    IF ~gs.ok THEN gs
    ELSE IF ~o.spawned THEN Fail(GsSpawnError, w)
    ELSE LET w1 == Spawn(w, "gs", gs.val, <<Arg("--version", <<>>)>>, o) IN
         IF Success(o) THEN Ok(Trim(o.stdout), w1)
         ELSE Fail(Err("Failed to get Ghostscript version", <<>>), w1)

CompressArgs(input, output, preset) ==
    << Arg("-sDEVICE=pdfwrite", <<>>), Arg("-dCompatibilityLevel=1.4", <<>>),
       Arg("-dPDFSETTINGS=/{}", preset), Arg("-dNOPAUSE", <<>>),
       Arg("-dQUIET", <<>>), Arg("-dBATCH", <<>>),
       Arg("-dDetectDuplicateImages=true", <<>>), Arg("-dCompressFonts=true", <<>>),
       Arg("-dSubsetFonts=true", <<>>), Arg("-sOutputFile={}", output),
       Arg("{}", input) >>

\* ghostscript::compress
compress(input, output, preset, o, w) ==
    LET gs == get_gs(w) IN
    IF ~gs.ok THEN gs
    ELSE IF ~o.spawned THEN Fail(GsSpawnError, w)
    ELSE LET w1 == Spawn(w, "gs", gs.val, CompressArgs(input, output, preset), o) IN
         IF Success(o) THEN Ok(<<>>, WriteFile(w1, output, o.size, Contents(w, input)))
         ELSE Fail(Err("Ghostscript compression failed with exit code: {:?}",
                       <<ExitCode(o.code)>>), w1)

\* MergeArgs with a bug: an input given twice is passed once
MergeArgs_Dedup(inputs, output) ==
    LET kept == {i \in 1..Len(inputs) : \A j \in 1..(i - 1) : inputs[j] # inputs[i]}
        nth(k) == CHOOSE i \in kept : Cardinality({j \in kept : j < i}) = k - 1
    IN  << Arg("-sDEVICE=pdfwrite", <<>>), Arg("-dNOPAUSE", <<>>), Arg("-dQUIET", <<>>),
           Arg("-dBATCH", <<>>), Arg("-sOutputFile={}", output) >>
        \o [k \in 1..Cardinality(kept) |-> Arg("{}", inputs[nth(k)])]

MergeArgs(inputs, output) ==
    << Arg("-sDEVICE=pdfwrite", <<>>), Arg("-dNOPAUSE", <<>>), Arg("-dQUIET", <<>>),
       Arg("-dBATCH", <<>>), Arg("-sOutputFile={}", output) >>
    \o [i \in 1..Len(inputs) |-> Arg("{}", inputs[i])]

\* ghostscript::merge
merge(inputs, output, o, w) ==
    LET gs == get_gs(w) IN
    IF ~gs.ok THEN gs
    ELSE IF ~o.spawned THEN Fail(GsSpawnError, w)
    ELSE LET w1 == Spawn(w, "gs", gs.val, MergeArgs(inputs, output), o) IN
         IF Success(o) THEN Ok(<<>>, WriteFile(w1, output, o.size, ConcatContents(w, inputs)))
         ELSE Fail(Err("Ghostscript merge failed with exit code: {:?}", <<ExitCode(o.code)>>), w1)

\* input.replace('\\', "/").replace('(', "\\(").replace(')', "\\)")
RECURSIVE EscapePs(_)
EscapePs(s) ==
    IF Len(s) = 0 THEN <<>>
    ELSE (IF s[1] = "\\" THEN <<"/">>
          ELSE IF s[1] = "(" THEN <<"\\", "(">>
          ELSE IF s[1] = ")" THEN <<"\\", ")">>
          ELSE <<s[1]>>) \o EscapePs(Tail(s))

\* get_page_count_alternative
get_page_count_alternative(input, o, w) ==
    LET gs == get_gs(w) IN
    IF ~gs.ok THEN gs
    ELSE IF ~o.spawned THEN Fail(GsSpawnError, w)
    ELSE LET args == << Arg("-q", <<>>), Arg("-dNODISPLAY", <<>>), Arg("-dBATCH", <<>>),
                        Arg("-dNOPAUSE", <<>>), Arg("-c", <<>>),
                        Arg("({}) (r) file runpdfbegin pdfpagecount = quit",
                            EscapePs(input)) >>
             w1 == Spawn(w, "gs", gs.val, args, o)
             count_str == Trim(o.stdout)
             last == IF IsSome(LastLine(count_str)) THEN Unwrap(LastLine(count_str))
                     ELSE count_str
         IN  IF Success(o)
             THEN IF IsSome(ParseU32(Trim(last))) THEN Ok(Unwrap(ParseU32(Trim(last))), w1)
                  ELSE Fail(Err("Failed to parse page count from: {}", <<Chars(count_str)>>), w1)
             ELSE Fail(Err("Failed to get page count: {}", <<Text("stderr")>>), w1)

\* ghostscript::get_page_count; o is the run of the first query, o2 the run of
\* the alternative query
get_page_count(input, o, o2, w) ==
    LET gs == get_gs(w) IN
    IF ~gs.ok THEN gs
    ELSE IF ~o.spawned THEN Fail(GsSpawnError, w)
    ELSE LET args == << Arg("-q", <<>>), Arg("-dNODISPLAY", <<>>), Arg("-dNOSAFER", <<>>),
                        Arg("-c ({}) (r) file runpdfbegin pdfpagecount = quit", input) >>
             w1 == Spawn(w, "gs", gs.val, args, o)
             count_str == Trim(o.stdout)
         IN  IF Success(o)
             THEN IF IsSome(ParseU32(count_str)) THEN Ok(Unwrap(ParseU32(count_str)), w1)
                  ELSE Fail(Err("Failed to parse page count: {}", <<Chars(count_str)>>), w1)
             ELSE get_page_count_alternative(input, o2, w1)

ExtractArgs(input, output, start, end) ==
    << Arg("-sDEVICE=pdfwrite", <<>>), Arg("-dNOPAUSE", <<>>), Arg("-dQUIET", <<>>),
       Arg("-dBATCH", <<>>), Arg("-dFirstPage={}", U32ToString(start)),
       Arg("-dLastPage={}", U32ToString(end)), Arg("-sOutputFile={}", output),
       Arg("{}", input) >>

\* ghostscript::extract_pages
extract_pages(input, output, start, end, o, w) ==
    LET gs == get_gs(w) IN
    IF ~gs.ok THEN gs
    ELSE IF ~o.spawned THEN Fail(GsSpawnError, w)
    ELSE LET w1 == Spawn(w, "gs", gs.val, ExtractArgs(input, output, start, end), o) IN
         IF Success(o)
         THEN Ok(<<>>, WriteFile(w1, output, o.size, PagesFrom(w, input, start, end)))
         ELSE Fail(Err("Failed to extract pages {}-{}", <<U32V(start), U32V(end)>>), w1)

Min(a, b) == IF a < b THEN a ELSE b

\* the run of the i-th extraction of a command (the last run given stands
\* for the later ones)
OutAt(outs, i) == outs[Min(i, Len(outs))]

\* the directory tempfile::tempdir() creates
TempDir == <<"/", "t">>

\* TempDir::drop: the directory and the files in it are removed
DropTempDir(w) ==
    [w EXCEPT !.dirs = @ \ {TempDir},
              !.fs = [q \in {x \in DOMAIN @ : Parent(x) # Some(TempDir)} |-> @[q]],
              !.docs = [q \in {x \in DOMAIN @ : Parent(x) # Some(TempDir)} |-> @[q]]]

\* ExtractEach with a bug: a page whose temporary file was already written is
\* not extracted and not listed again
RECURSIVE ExtractEach_Dedup(_, _, _, _, _, _)
ExtractEach_Dedup(input, pages, outs, i, temp_files, w) ==
    IF i > Len(pages) THEN Ok(temp_files, w)
    ELSE LET temp_str == Join(TempDir, <<"p","a","g","e","_">> \o U32ToString(pages[i])
                                       \o DotPdf)
         IN  IF \E j \in 1..Len(temp_files) : temp_files[j] = temp_str
             THEN ExtractEach_Dedup(input, pages, outs, i + 1, temp_files, w)
             ELSE Only({ IF ~r.ok THEN r
                         ELSE ExtractEach_Dedup(input, pages, outs, i + 1,
                                                Append(temp_files, temp_str), r.w) :
                         r \in {extract_pages(input, temp_str, pages[i], pages[i],
                                              OutAt(outs, i), w)} })

\* the loop of extract_page_list, from page index i on; outs[i] is the run of
\* the i-th extraction
RECURSIVE ExtractEach(_, _, _, _, _, _)
ExtractEach(input, pages, outs, i, temp_files, w) ==
    IF i > Len(pages) THEN Ok(temp_files, w)
    ELSE LET temp_str == Join(TempDir, <<"p","a","g","e","_">> \o U32ToString(pages[i])
                                       \o DotPdf)
         IN  Only({ IF ~r.ok THEN r
                    ELSE ExtractEach(input, pages, outs, i + 1,
                                     Append(temp_files, temp_str), r.w) :
                    r \in {extract_pages(input, temp_str, pages[i], pages[i],
                                         OutAt(outs, i), w)} })

\* the end of extract_page_list: a copy of the only page, or a merge
AssembleOutput(temp_files, output, om, w) ==
    IF Len(temp_files) = 1
    THEN IF temp_files[1] \in DOMAIN w.fs
         THEN Ok(<<>>, WriteFile(w, output, Some(w.fs[temp_files[1]]),
                                 Contents(w, temp_files[1])))
         ELSE Fail(Err("Failed to copy output: {}", <<IoError>>), w)
    ELSE merge(temp_files, output, om, w)

\* ghostscript::extract_page_list; tmp_ok says whether the temporary directory
\* could be created, om is the run of the merge
extract_page_list(input, output, pages, tmp_ok, outs, om, w) ==
    LET gs == get_gs(w) IN
    IF ~gs.ok THEN gs
    ELSE IF ~tmp_ok THEN Fail(Err("Failed to create temp directory: {}", <<IoError>>), w)
    ELSE LET w1 == [w EXCEPT !.dirs = @ \cup {TempDir}, !.made = @ \cup {TempDir}]
         IN  Only({ [done EXCEPT !.w = DropTempDir(@)] :
                    done \in { Only({ IF ~each.ok THEN each
                                      ELSE AssembleOutput(each.val, output, om, each.w) :
                                      each \in {ExtractEach(input, pages, outs, 1, <<>>,
                                                            w1)} }) } })

(***************************************************************************)
(* qpdf.rs                                                                 *)
(***************************************************************************)
QpdfCandidates ==
    IF os = "windows" THEN
        << "C:\\Program Files\\qpdf\\bin\\qpdf.exe",
           "C:\\Program Files (x86)\\qpdf\\bin\\qpdf.exe" >>
    ELSE IF os = "macos" THEN
        << "/opt/homebrew/bin/qpdf", "/usr/local/bin/qpdf", "/opt/local/bin/qpdf" >>
    ELSE << "/usr/bin/qpdf", "/usr/local/bin/qpdf" >>

\* find_qpdf: which::which("qpdf"), then the install paths of the OS
find_qpdf ==
    IF "qpdf" \in onPath THEN Some("qpdf") ELSE FirstInstalled(QpdfCandidates)

QpdfInstallHint ==
    IF os = "macos" THEN "Install with: brew install qpdf"
    ELSE IF os = "windows" THEN "Download from: https://github.com/qpdf/qpdf/releases"
    ELSE "Install with: sudo apt install qpdf"

\* get_qpdf
get_qpdf(w) ==
    IF IsSome(find_qpdf) THEN Ok(Unwrap(find_qpdf), w)
    ELSE Fail(Err("qpdf not found. {}", <<Text(QpdfInstallHint)>>), w)

QpdfSpawnError == Err("Failed to run qpdf: {}", <<IoError>>)

\* qpdf::encrypt
encrypt(input, output, user_password, owner_password, o, w) ==
    LET qpdf == get_qpdf(w) IN
    IF ~qpdf.ok THEN qpdf
    ELSE IF ~o.spawned THEN Fail(QpdfSpawnError, w)
    ELSE LET args == << Arg("--encrypt", <<>>), Arg("{}", user_password),
                        Arg("{}", owner_password), Arg("256", <<>>), Arg("--", <<>>),
                        Arg("{}", input), Arg("{}", output) >>
             w1 == Spawn(w, "qpdf", qpdf.val, args, o)
         IN  IF Success(o) THEN Ok(<<>>, WriteFile(w1, output, o.size, Contents(w, input)))
             ELSE Fail(Err("qpdf encryption failed with exit code: {:?}", <<ExitCode(o.code)>>), w1)

\* qpdf::decrypt
\* decrypt with a bug: the failure message is built as encrypt builds it
decrypt_WithCode(input, output, password, o, w) ==
    LET qpdf == get_qpdf(w) IN
    IF ~qpdf.ok THEN qpdf
    ELSE IF ~o.spawned THEN Fail(QpdfSpawnError, w)
    ELSE LET args == << Arg("--decrypt", <<>>), Arg("--password={}", password),
                        Arg("{}", input), Arg("{}", output) >>
             w1 == Spawn(w, "qpdf", qpdf.val, args, o)
         IN  IF Success(o) THEN Ok(<<>>, WriteFile(w1, output, o.size, Contents(w, input)))
             ELSE Fail(Err("qpdf decryption failed with exit code: {:?}",
                           <<ExitCode(o.code)>>), w1)

decrypt(input, output, password, o, w) ==
    LET qpdf == get_qpdf(w) IN
    IF ~qpdf.ok THEN qpdf
    ELSE IF ~o.spawned THEN Fail(QpdfSpawnError, w)
    ELSE LET args == << Arg("--decrypt", <<>>), Arg("--password={}", password),
                        Arg("{}", input), Arg("{}", output) >>
             w1 == Spawn(w, "qpdf", qpdf.val, args, o)
         IN  IF Success(o) THEN Ok(<<>>, WriteFile(w1, output, o.size, Contents(w, input)))
             ELSE Fail(Err("Failed to decrypt PDF. Check if the password is correct.",
                           <<>>), w1)

(***************************************************************************)
(* commands/compress.rs                                                    *)
(***************************************************************************)
\* valid_presets with a bug: Ghostscript's own /default setting is let through
valid_presets_WithDefault == <<"screen", "ebook", "printer", "prepress", "default">>

valid_presets == <<"screen", "ebook", "printer", "prepress">>

Chars_compressed == <<"-","c","o","m","p","r","e","s","s","e","d">>
Chars_protected == <<"-","p","r","o","t","e","c","t","e","d">>
Chars_unlocked == <<"-","u","n","l","o","c","k","e","d">>

\* the f64 (original - compressed) / original * 100.0, kept as the exact
\* quotient num / den of the two u64 sizes
\* savings_percent with a bug: the difference of the sizes is taken in u64,
\* saturating at 0
savings_percent_Saturating(original_size, compressed_size) ==
    IF original_size > 0
    THEN [num |-> (IF compressed_size > original_size THEN 0
                   ELSE original_size - compressed_size) * 100,
          den |-> original_size]
    ELSE [num |-> 0, den |-> 1]

savings_percent(original_size, compressed_size) ==
    IF original_size > 0
    THEN [num |-> (original_size - compressed_size) * 100, den |-> original_size]
    ELSE [num |-> 0, den |-> 1]

\* compress_pdf
compress_pdf(input_path, output_path, preset, o, w) ==
    LET v == validate_pdf(input_path, w) IN
    IF IsSome(v) THEN Fail(Unwrap(v), w)
    ELSE IF ~\E i \in 1..Len(valid_presets) : valid_presets[i] = preset
    THEN Fail(Err("Invalid preset '{}'. Valid options: {:?}", <<Text(preset)>>), w)
    ELSE LET output == IF IsSome(output_path) THEN Unwrap(output_path)
                       ELSE generate_output_path(input_path, Chars_compressed)
             original_size == get_file_size(input_path, w)
             r == compress(input_path, output, preset, o, w)
             compressed_size == get_file_size(output, r.w)
         IN  IF ~IsSome(original_size)
             THEN Fail(Err("Failed to read input file: {}", <<IoError>>), w)
             ELSE IF ~r.ok THEN r
             ELSE IF ~IsSome(compressed_size)
             THEN Fail(Err("Failed to read output file: {}", <<IoError>>), r.w)
             ELSE Ok([output_path |-> output,
                      original_size |-> Unwrap(original_size),
                      compressed_size |-> Unwrap(compressed_size),
                      savings_percent |-> savings_percent(Unwrap(original_size),
                                                          Unwrap(compressed_size))],
                     r.w)

\* check_ghostscript
check_ghostscript(w) ==
    IF IsSome(find_ghostscript) THEN Ok(Unwrap(find_ghostscript), w)
    ELSE Fail(Err("Ghostscript not found. Please install Ghostscript.", <<>>), w)

\* get_ghostscript_version
get_ghostscript_version(o, w) == get_version(o, w)

(***************************************************************************)
(* commands/merge.rs                                                       *)
(***************************************************************************)
\* the error of the first input that validate_pdf rejects, None when all pass
FirstInvalid(input_paths, w) ==
    LET bad == {i \in 1..Len(input_paths) : IsSome(validate_pdf(input_paths[i], w))}
    IN  IF bad = {} THEN None
        ELSE validate_pdf(input_paths[CHOOSE i \in bad : \A j \in bad : i <= j], w)

\* merge_pdfs
\* merge_pdfs with a bug: the inputs are validated before they are counted
merge_pdfs_ValidatesFirst(input_paths, output_path, o, w) ==
    IF IsSome(FirstInvalid(input_paths, w))
    THEN Fail(Unwrap(FirstInvalid(input_paths, w)), w)
    ELSE IF Len(input_paths) < 2
    THEN Fail(Err("At least 2 PDF files are required for merging", <<>>), w)
    ELSE LET output_dir == Parent(output_path)
             r == merge(input_paths, output_path, o, w)
             size == get_file_size(output_path, r.w)
         IN  IF /\ IsSome(output_dir)
                /\ ~Exists(Unwrap(output_dir), w.fs, w.dirs)
                /\ Len(Unwrap(output_dir)) # 0
             THEN Fail(Err("Output directory does not exist: {}",
                           <<PathV(Unwrap(output_dir))>>), w)
             ELSE IF ~r.ok THEN r
             ELSE IF ~IsSome(size)
             THEN Fail(Err("Failed to read output file: {}", <<IoError>>), r.w)
             ELSE Ok([output_path |-> output_path, size |-> Unwrap(size)], r.w)

merge_pdfs(input_paths, output_path, o, w) ==
    IF Len(input_paths) < 2
    THEN Fail(Err("At least 2 PDF files are required for merging", <<>>), w)
    ELSE IF IsSome(FirstInvalid(input_paths, w))
    THEN Fail(Unwrap(FirstInvalid(input_paths, w)), w)
    ELSE LET output_dir == Parent(output_path)
             r == merge(input_paths, output_path, o, w)
             size == get_file_size(output_path, r.w)
         IN  IF /\ IsSome(output_dir)
                /\ ~Exists(Unwrap(output_dir), w.fs, w.dirs)
                /\ Len(Unwrap(output_dir)) # 0
             THEN Fail(Err("Output directory does not exist: {}", <<PathV(Unwrap(output_dir))>>), w)
             ELSE IF ~r.ok THEN r
             ELSE IF ~IsSome(size)
             THEN Fail(Err("Failed to read output file: {}", <<IoError>>), r.w)
             ELSE Ok([output_path |-> output_path, size |-> Unwrap(size)], r.w)

(***************************************************************************)
(* commands/protect.rs                                                     *)
(***************************************************************************)
\* protect_pdf
\* protect_pdf with a bug: the password is not checked
protect_pdf_Unchecked(input_path, output_path, user_password, owner_password, o, w) ==
    LET v == validate_pdf(input_path, w) IN
    IF IsSome(v) THEN Fail(Unwrap(v), w)
    ELSE LET output == IF IsSome(output_path) THEN Unwrap(output_path)
                       ELSE generate_output_path(input_path, Chars_protected)
             owner_pwd == IF IsSome(owner_password) THEN Unwrap(owner_password)
                          ELSE user_password
             r == encrypt(input_path, output, user_password, owner_pwd, o, w)
             size == get_file_size(output, r.w)
         IN  IF ~r.ok THEN r
             ELSE IF ~IsSome(size)
             THEN Fail(Err("Failed to read output file: {}", <<IoError>>), r.w)
             ELSE Ok([output_path |-> output, size |-> Unwrap(size)], r.w)

protect_pdf(input_path, output_path, user_password, owner_password, o, w) ==
    LET v == validate_pdf(input_path, w) IN
    IF IsSome(v) THEN Fail(Unwrap(v), w)
    ELSE IF Len(user_password) = 0 THEN Fail(Err("Password cannot be empty", <<>>), w)
    ELSE LET output == IF IsSome(output_path) THEN Unwrap(output_path)
                       ELSE generate_output_path(input_path, Chars_protected)
             owner_pwd == IF IsSome(owner_password) THEN Unwrap(owner_password)
                          ELSE user_password
             r == encrypt(input_path, output, user_password, owner_pwd, o, w)
             size == get_file_size(output, r.w)
         IN  IF ~r.ok THEN r
             ELSE IF ~IsSome(size)
             THEN Fail(Err("Failed to read output file: {}", <<IoError>>), r.w)
             ELSE Ok([output_path |-> output, size |-> Unwrap(size)], r.w)

\* unlock_pdf
unlock_pdf(input_path, output_path, password, o, w) ==
    LET v == validate_pdf(input_path, w) IN
    IF IsSome(v) THEN Fail(Unwrap(v), w)
    ELSE LET output == IF IsSome(output_path) THEN Unwrap(output_path)
                       ELSE generate_output_path(input_path, Chars_unlocked)
             r == decrypt(input_path, output, password, o, w)
             size == get_file_size(output, r.w)
         IN  IF ~r.ok THEN r
             ELSE IF ~IsSome(size)
             THEN Fail(Err("Failed to read output file: {}", <<IoError>>), r.w)
             ELSE Ok([output_path |-> output, size |-> Unwrap(size)], r.w)

\* check_qpdf
check_qpdf(w) ==
    IF IsSome(find_qpdf) THEN Ok(Unwrap(find_qpdf), w)
    ELSE Fail(Err("qpdf not found. Please install qpdf for password protection features.",
                  <<>>), w)

(***************************************************************************)
(* commands/split.rs                                                       *)
(***************************************************************************)
\* the proper ancestors of a path, nearest first
RECURSIVE Ancestors(_)
Ancestors(p) ==
    IF ~IsSome(Parent(p)) \/ Len(Unwrap(Parent(p))) = 0 THEN <<>>
    ELSE <<Unwrap(Parent(p))>> \o Ancestors(Unwrap(Parent(p)))

\* std::fs::create_dir_all: fails when an ancestor is a regular file,
\* otherwise creates the directory and its missing ancestors
create_dir_all(dir, w) ==
    LET anc == Ancestors(dir)
        new == ({dir} \cup {anc[i] : i \in 1..Len(anc)}) \ (w.dirs \cup {<<>>})
    IN  IF \E i \in 1..Len(anc) : anc[i] \in DOMAIN w.fs
        THEN Fail(Err("Failed to create output directory: {}", <<IoError>>), w)
        ELSE Ok(<<>>, [w EXCEPT !.dirs = @ \cup new, !.made = @ \cup new])

Chars_pages == <<"_","p","a","g","e","s","_">>
Chars_part == <<"_","p","a","r","t">>
Chars_dashpages == <<"-","p","a","g","e","s">>

\* pages.iter().map(|p| p.to_string()).collect::<Vec<_>>().join("-")
RECURSIVE JoinDash(_)
JoinDash(pages) ==
    IF Len(pages) = 0 THEN <<>>
    ELSE IF Len(pages) = 1 THEN U32ToString(pages[1])
    ELSE U32ToString(pages[1]) \o <<"-">> \o JoinDash(Tail(pages))

\* SplitRange with a bug: a failed extraction is tried a second time
SplitRange_Retry(input_path, out_dir, input_stem, options, total_pages, outs, w) ==
    LET start == IF IsSome(options.range_start) THEN Unwrap(options.range_start) ELSE 1
        end == IF IsSome(options.range_end) THEN Unwrap(options.range_end)
               ELSE total_pages
        output_path == Join(out_dir, input_stem \o Chars_pages \o U32ToString(start)
                                     \o <<"-">> \o U32ToString(end) \o DotPdf)
    IN  IF start > end \/ start < 1 \/ end > total_pages
        THEN Fail(Err("Invalid page range {}-{}. PDF has {} pages.",
                      <<U32V(start), U32V(end), U32V(total_pages)>>), w)
        ELSE Only({ IF r.ok THEN Ok(<<output_path>>, r.w)
                    ELSE Only({ IF ~r2.ok THEN r2 ELSE Ok(<<output_path>>, r2.w) :
                                r2 \in {extract_pages(input_path, output_path, start, end,
                                                      OkRun, r.w)} }) :
                    r \in {extract_pages(input_path, output_path, start, end,
                                         OutAt(outs, 1), w)} })

\* SplitRange with a bug: the lower bound of the range is not checked
SplitRange_NoLowerBound(input_path, out_dir, input_stem, options, total_pages, outs, w) ==
    LET start == IF IsSome(options.range_start) THEN Unwrap(options.range_start) ELSE 1
        end == IF IsSome(options.range_end) THEN Unwrap(options.range_end)
               ELSE total_pages
        output_path == Join(out_dir, input_stem \o Chars_pages \o U32ToString(start)
                                     \o <<"-">> \o U32ToString(end) \o DotPdf)
    IN  IF start > end \/ end > total_pages
        THEN Fail(Err("Invalid page range {}-{}. PDF has {} pages.",
                      <<U32V(start), U32V(end), U32V(total_pages)>>), w)
        ELSE Only({ IF ~r.ok THEN r ELSE Ok(<<output_path>>, r.w) :
                    r \in {extract_pages(input_path, output_path, start, end,
                                         OutAt(outs, 1), w)} })

\* the "range" arm of split_pdf
SplitRange(input_path, out_dir, input_stem, options, total_pages, outs, w) ==
    LET start == IF IsSome(options.range_start) THEN Unwrap(options.range_start) ELSE 1
        end == IF IsSome(options.range_end) THEN Unwrap(options.range_end)
               ELSE total_pages
        output_path == Join(out_dir, input_stem \o Chars_pages \o U32ToString(start)
                                     \o <<"-">> \o U32ToString(end) \o DotPdf)
    IN  IF start > end \/ start < 1 \/ end > total_pages
        THEN Fail(Err("Invalid page range {}-{}. PDF has {} pages.",
                      <<U32V(start), U32V(end), U32V(total_pages)>>), w)
        ELSE Only({ IF ~r.ok THEN r ELSE Ok(<<output_path>>, r.w) :
                    r \in {extract_pages(input_path, output_path, start, end,
                                         OutAt(outs, 1), w)} })

\* the "extract" arm of split_pdf
SplitExtract(input_path, out_dir, input_stem, options, total_pages, tmp_ok, outs, om, w) ==
    IF ~IsSome(options.pages)
    THEN Fail(Err("Pages list required for extract mode", <<>>), w)
    ELSE LET pages == Unwrap(options.pages)
             bad == {i \in 1..Len(pages) : pages[i] < 1 \/ pages[i] > total_pages}
             pages_str == IF Len(pages) <= 3 THEN JoinDash(pages)
                          ELSE U32ToString(Len(pages)) \o Chars_dashpages
             output_path == Join(out_dir, input_stem \o <<"_">> \o pages_str \o DotPdf)
         IN  IF Len(pages) = 0 THEN Fail(Err("No pages specified", <<>>), w)
             ELSE IF bad # {}
             THEN Fail(Err("Invalid page number {}. PDF has {} pages.",
                           <<U32V(pages[CHOOSE i \in bad : \A j \in bad : i <= j]),
                             U32V(total_pages)>>), w)
             ELSE Only({ IF ~r.ok THEN r ELSE Ok(<<output_path>>, r.w) :
                         r \in {extract_page_list(input_path, output_path, pages, tmp_ok,
                                                  outs, om, w)} })

\* EveryNLoop with a bug: a last chunk of fewer than n pages is not written
RECURSIVE EveryNLoop_DropsTail(_, _, _, _, _, _, _, _, _, _)
EveryNLoop_DropsTail(input_path, out_dir, input_stem, n, total_pages, start, part, outs, output_paths, w) ==
    IF ~(start + n - 1 <= total_pages) THEN Ok(output_paths, w)
    ELSE LET end == start + n - 1
             output_path == Join(out_dir, input_stem \o Chars_part \o U32ToString(part)
                                          \o DotPdf)
         IN  Only({ IF ~r.ok THEN r
                    ELSE EveryNLoop_DropsTail(input_path, out_dir, input_stem, n,
                                              total_pages, end + 1, part + 1, outs,
                                              Append(output_paths, output_path), r.w) :
                    r \in {extract_pages(input_path, output_path, start, end,
                                         OutAt(outs, part), w)} })

\* the while loop of the "every-n" arm of split_pdf (the page numbers of the
\* model stay far below 2^32, where u32 addition is exact)
RECURSIVE EveryNLoop(_, _, _, _, _, _, _, _, _, _)
EveryNLoop(input_path, out_dir, input_stem, n, total_pages, start, part, outs, output_paths, w) ==
    IF ~(start <= total_pages) THEN Ok(output_paths, w)
    ELSE LET end == Min(start + n - 1, total_pages)
             output_path == Join(out_dir, input_stem \o Chars_part \o U32ToString(part)
                                          \o DotPdf)
         IN  Only({ IF ~r.ok THEN r
                    ELSE EveryNLoop(input_path, out_dir, input_stem, n, total_pages,
                                    end + 1, part + 1, outs,
                                    Append(output_paths, output_path), r.w) :
                    r \in {extract_pages(input_path, output_path, start, end,
                                         OutAt(outs, part), w)} })

\* the "every-n" arm of split_pdf
SplitEveryN(input_path, out_dir, input_stem, options, total_pages, outs, w) ==
    LET n == IF IsSome(options.every_n) THEN Unwrap(options.every_n) ELSE 1 IN
    IF n < 1 THEN Fail(Err("every_n must be at least 1", <<>>), w)
    ELSE EveryNLoop(input_path, out_dir, input_stem, n, total_pages, 1, 1, outs, <<>>, w)

\* SplitArm with a bug: a mode that is not known is taken to be "range"
SplitArm_DefaultsToRange(input_path, output_dir, input_stem, options, total_pages, tmp_ok, outs, om, w) ==
    IF options.mode = "extract"
    THEN SplitExtract(input_path, output_dir, input_stem, options, total_pages, tmp_ok,
                      outs, om, w)
    ELSE IF options.mode = "every-n"
    THEN SplitEveryN(input_path, output_dir, input_stem, options, total_pages, outs, w)
    ELSE SplitRange(input_path, output_dir, input_stem, options, total_pages, outs, w)

\* the match on options.mode of split_pdf
SplitArm(input_path, output_dir, input_stem, options, total_pages, tmp_ok, outs, om, w) ==
    IF options.mode = "range"
    THEN SplitRange(input_path, output_dir, input_stem, options, total_pages, outs, w)
    ELSE IF options.mode = "extract"
    THEN SplitExtract(input_path, output_dir, input_stem, options, total_pages, tmp_ok,
                      outs, om, w)
    ELSE IF options.mode = "every-n"
    THEN SplitEveryN(input_path, output_dir, input_stem, options, total_pages, outs, w)
    ELSE Fail(Err("Invalid split mode '{}'. Valid options: range, extract, every-n",
                  <<Text(options.mode)>>), w)

\* split_pdf; o and o2 are the runs of the page-count queries, outs the runs of
\* the extractions, om the run of the merge of extract_page_list
split_pdf(input_path, output_dir, options, o, o2, tmp_ok, outs, om, w) ==
    LET v == validate_pdf(input_path, w)
        input_stem == IF IsSome(FileStem(input_path)) THEN Unwrap(FileStem(input_path))
                      ELSE <<>>
    IN  IF IsSome(v) THEN Fail(Unwrap(v), w)
        ELSE Only({
          IF ~mk.ok THEN mk
          ELSE Only({
            IF ~pc.ok THEN pc
            ELSE Only({
              IF ~arm.ok THEN arm
              ELSE Ok([output_paths |-> arm.val, total_pages |-> pc.val], arm.w) :
              arm \in {SplitArm(input_path, output_dir, input_stem, options, pc.val,
                                tmp_ok, outs, om, pc.w)} }) :
            pc \in {get_page_count(input_path, o, o2, mk.w)} }) :
          mk \in {IF ~Exists(output_dir, w.fs, w.dirs) THEN create_dir_all(output_dir, w)
                  ELSE Ok(<<>>, w)} })

\* get_pdf_page_count
get_pdf_page_count(input_path, o, o2, w) ==
    LET v == validate_pdf(input_path, w) IN
    IF IsSome(v) THEN Fail(Unwrap(v), w)
    ELSE get_page_count(input_path, o, o2, w)

(***************************************************************************)
(* The environment the commands are exercised in.                          *)
(***************************************************************************)
OSes == {"macos", "windows", "linux"}

P_a == <<"d","/","a",".","p","d","f">>          \* a PDF of 4 bytes
P_b == <<"b",".","x",".","P","D","F">>          \* an empty PDF, upper-case extension
P_n == <<"d","/","n",".","t","x","t">>          \* a file that is no PDF
P_h == <<"d","/",".","p","d","f">>              \* a hidden file without extension
P_m == <<"m",".","t","x","t">>                  \* missing, no PDF extension
P_q == <<"d","/","q",".","p","d","f">>          \* missing, PDF extension
P_o == <<"d","/","o",".","p","d","f">>          \* an output path in directory d
P_z == <<"z","/","o",".","p","d","f">>          \* an output path in a missing directory
P_r == <<"r",".","p","d","f">>                  \* an output path without directory
D_d == <<"d">>                                  \* an existing directory
D_new == <<"n","/","s">>                        \* a directory to create
D_bad == <<"d","/","n",".","t","x","t","/","s">> \* below a regular file

InputPaths == {P_a, P_b, P_n, P_h, P_m, P_q}
OutputOptions == {None, Some(P_o), Some(P_a)}
Passwords == {<<>>, <<"s">>}

InitFs == (P_a :> 4) @@ (P_b :> 0) @@ (P_n :> 2) @@ (P_h :> 1)
InitDirs == {D_d}

FailRuns == {SpawnFailed, Exited(Some(1), None, <<>>), Exited(None, None, <<>>)}
WriteRuns(sizes) == {Exited(Some(0), sz, <<>>) : sz \in sizes}

\* what a page-count query prints when it exits with 0
PageCountOutputs ==
    {U32ToString(p) \o <<"\n">> : p \in 0..MaxPages}
    \cup {<<"x">>, <<"w", "\n", "1", "\n">>}
PageCountRuns == FailRuns \cup {Exited(Some(0), None, out) : out \in PageCountOutputs}

\* the runs of n extractions: all succeed, or the k-th one is f
ExtractRuns(n) ==
    {[i \in 1..n |-> OkRun]}
    \cup {[i \in 1..n |-> IF i = k THEN f ELSE OkRun] :
            k \in 1..n, f \in {SpawnFailed, Exited(Some(1), None, <<>>),
                               Exited(Some(0), None, <<>>)}}

\* the runs a step is exercised with: all of S when the step can happen
When(cond, S, dflt) == IF cond THEN S ELSE {dflt}

World0 == [fs |-> fs, dirs |-> dirs, log |-> <<>>, made |-> {}, docs |-> docs]
Valid(path) == ~IsSome(validate_pdf(path, World0))

(***************************************************************************)
(* The state machine: one action per Tauri command.                        *)
(***************************************************************************)
\* A u32 as its two 16-bit halves, so that sums near 2^32 can be computed.
Half == 2^16
U32(hi, lo) == [hi |-> hi, lo |-> lo]
U32Of(k) == U32(k \div Half, k % Half)
U32Max == U32(Half - 1, Half - 1)
U32Le(a, b) == a.hi < b.hi \/ (a.hi = b.hi /\ a.lo <= b.lo)
U32Lt(a, b) == a.hi < b.hi \/ (a.hi = b.hi /\ a.lo < b.lo)
U32Min(a, b) == IF U32Le(a, b) THEN a ELSE b

\* a + b and a - b modulo 2^32, and whether the exact result leaves the range
\* (where a build with overflow checks panics)
WrappingAdd(a, b) ==
    U32((a.hi + b.hi + (a.lo + b.lo) \div Half) % Half, (a.lo + b.lo) % Half)
AddOverflows(a, b) == a.hi + b.hi + (a.lo + b.lo) \div Half >= Half
WrappingSub(a, b) ==
    U32((a.hi - b.hi - (IF a.lo < b.lo THEN 1 ELSE 0) + Half) % Half,
        (a.lo - b.lo + Half) % Half)
SubOverflows(a, b) == U32Lt(a, b)

\* the loop has not been entered
NoLoop == [pc |-> "none"]

\* the chunk sizes and page counts the loop is run with
EveryNSizes == {U32Of(k) : k \in 1..MaxPages} \cup {U32(Half \div 2, 0), U32Max}
EveryNCounts ==
    {U32Of(k) : k \in 0..(MaxPages + 1)}
    \cup {U32(1, 0), U32(Half - 1, Half - 2), U32Max}

\* `let mut part = 1; let mut start = 1;` with n >= 1 and the page count
\* known; checks tells whether the build panics on overflow (debug) or wraps
\* (release)
EveryNInit ==
    /\ os = "linux" /\ onPath = {"gs", "qpdf"} /\ installed = {}
    /\ fs = InitFs /\ dirs = InitDirs
    /\ req = [cmd |-> "none"]
    /\ result = [ok |-> TRUE, val |-> <<>>, err |-> NoErr]
    /\ log = <<>> /\ made = {} /\ docs = [p \in {} |-> <<>>]
    /\ \E n \in EveryNSizes, total_pages \in EveryNCounts, checks \in BOOLEAN :
         loop = [pc |-> "while", n |-> n, total_pages |-> total_pages,
                 start |-> U32Of(1), end |-> U32Of(0), part |-> 1, checks |-> checks]

\* one pass through the body of `while start <= total_pages`: the range
\* (start, end) is handed to extract_pages, which succeeds or fails
EveryNIterate ==
    /\ loop.pc = "while"
    /\ U32Le(loop.start, loop.total_pages)
    /\ loop.part <= MaxParts
    /\ LET sum == WrappingAdd(loop.start, loop.n)
           end == U32Min(WrappingSub(sum, U32Of(1)), loop.total_pages)
       IN  IF loop.checks /\ (AddOverflows(loop.start, loop.n) \/ SubOverflows(sum, U32Of(1)))
           THEN loop' = [loop EXCEPT !.pc = "panic"]
           ELSE \E extracted \in BOOLEAN :
                  IF ~extracted
                  THEN loop' = [loop EXCEPT !.pc = "error", !.end = end]
                  ELSE IF loop.checks /\ AddOverflows(end, U32Of(1))
                  THEN loop' = [loop EXCEPT !.pc = "panic", !.end = end]
                  ELSE loop' = [loop EXCEPT !.end = end,
                                            !.start = WrappingAdd(end, U32Of(1)),
                                            !.part = @ + 1]
    /\ UNCHANGED <<os, onPath, installed, fs, dirs, req, result, log, made, docs>>

\* `start <= total_pages` is false: the loop is left
EveryNExit ==
    /\ loop.pc = "while"
    /\ ~U32Le(loop.start, loop.total_pages)
    /\ loop' = [loop EXCEPT !.pc = "done"]
    /\ UNCHANGED <<os, onPath, installed, fs, dirs, req, result, log, made, docs>>

EveryNNext == EveryNIterate \/ EveryNExit
EveryNSpec == EveryNInit /\ [][EveryNNext]_vars

Init ==
    /\ os \in OSes
    /\ \/ onPath = {"gs", "qpdf"} /\ installed = {}
       \/ /\ onPath = {}
          /\ installed = {GsCandidates[Len(GsCandidates)], QpdfCandidates[1]}
       \/ onPath = {} /\ installed \in {{}, {"/snap/bin/gs", "/snap/bin/qpdf"}}
    /\ fs = InitFs
    /\ dirs = InitDirs
    /\ req = [cmd |-> "none"]
    /\ result = [ok |-> TRUE, val |-> <<>>, err |-> NoErr]
    /\ log = <<>>
    /\ made = {}
    /\ docs = [p \in {} |-> <<>>]
    /\ loop = NoLoop

\* no command has been invoked yet
Idle == req.cmd = "none"

\* the command returns r
Return(request, r) ==
    /\ req' = request
    /\ result' = [ok |-> r.ok, val |-> r.val, err |-> r.err]
    /\ log' = r.w.log
    /\ made' = r.w.made
    /\ docs' = r.w.docs
    /\ fs' = r.w.fs
    /\ dirs' = r.w.dirs
    /\ UNCHANGED <<os, onPath, installed, loop>>

CompressPdf ==
    /\ Idle
    /\ \E input_path \in InputPaths, output_path \in OutputOptions,
          preset \in {"screen", "ebook", "printer", "prepress", "default", ""} :
         \E o \in When(Valid(input_path), FailRuns \cup WriteRuns({None, Some(0), Some(2), Some(6)}),
                       OkRun) :
           \E r \in {compress_pdf(input_path, output_path, preset, o, World0)} :
             Return([cmd |-> "compress_pdf", input_path |-> input_path,
                     output_path |-> output_path, preset |-> preset], r)

CheckGhostscript ==
    /\ Idle
    /\ \E r \in {check_ghostscript(World0)} :
         Return([cmd |-> "check_ghostscript"], r)

GetGhostscriptVersion ==
    /\ Idle
    /\ \E o \in FailRuns \cup {Exited(Some(0), None, <<"1", "0", ".", "0", "\n">>)} :
           \E r \in {get_ghostscript_version(o, World0)} :
             Return([cmd |-> "get_ghostscript_version"], r)

MergePdfs ==
    /\ Idle
    /\ \E input_paths \in {<<>>, <<P_a>>, <<P_q>>, <<P_a, P_b>>, <<P_b, P_a>>, <<P_a, P_n>>,
                           <<P_m, P_n>>, <<P_n, P_q>>, <<P_b, P_a, P_b>>},
          output_path \in {P_o, P_r, P_z} :
         \E o \in FailRuns \cup WriteRuns({None, Some(3)}) :
           \E r \in {merge_pdfs(input_paths, output_path, o, World0)} :
             Return([cmd |-> "merge_pdfs", input_paths |-> input_paths,
                     output_path |-> output_path], r)

ProtectPdf ==
    /\ Idle
    /\ \E input_path \in InputPaths, output_path \in OutputOptions,
          user_password \in Passwords, owner_password \in {None, Some(<<"o">>)} :
         \E o \in When(Valid(input_path), FailRuns \cup WriteRuns({None, Some(5)}), OkRun) :
           \E r \in {protect_pdf(input_path, output_path, user_password,
                   owner_password, o, World0)} :
             Return([cmd |-> "protect_pdf", input_path |-> input_path,
                     output_path |-> output_path, user_password |-> user_password,
                     owner_password |-> owner_password], r)

UnlockPdf ==
    /\ Idle
    /\ \E input_path \in InputPaths, output_path \in OutputOptions, password \in Passwords :
         \E o \in When(Valid(input_path), FailRuns \cup WriteRuns({None, Some(3)}), OkRun) :
           \E r \in {unlock_pdf(input_path, output_path, password, o, World0)} :
             Return([cmd |-> "unlock_pdf", input_path |-> input_path,
                     output_path |-> output_path, password |-> password], r)

CheckQpdf ==
    /\ Idle
    /\ \E r \in {check_qpdf(World0)} :
         Return([cmd |-> "check_qpdf"], r)

GetPdfPageCount ==
    /\ Idle
    /\ \E input_path \in InputPaths :
         \E o \in When(Valid(input_path), PageCountRuns, OkRun) :
           \E o2 \in When(Valid(input_path) /\ o.spawned /\ ~Success(o), PageCountRuns, OkRun) :
             \E r \in {get_pdf_page_count(input_path, o, o2, World0)} :
               Return([cmd |-> "get_pdf_page_count", input_path |-> input_path], r)

OptPages == {None} \cup {Some(k) : k \in 0..(MaxPages + 1)}

RangeOptions ==
    {[mode |-> "range", range_start |-> a, range_end |-> b, pages |-> None,
      every_n |-> None] : a \in OptPages, b \in OptPages}
ExtractOptions ==
    {[mode |-> "extract", range_start |-> None, range_end |-> None, pages |-> ps,
      every_n |-> None] :
        ps \in {None, Some(<<>>), Some(<<1>>), Some(<<2, 1>>), Some(<<1, 1>>),
                Some(<<1, 0>>), Some(<<MaxPages + 1>>), Some(<<1, 2, 1, 2>>)}}
EveryNOptions ==
    {[mode |-> "every-n", range_start |-> None, range_end |-> None, pages |-> None,
      every_n |-> n] : n \in OptPages}
OtherOptions ==
    {[mode |-> m, range_start |-> a, range_end |-> a, pages |-> ps, every_n |-> a] :
        m \in {"pages", "Range", ""}, a \in {None, Some(0), Some(1)},
        ps \in {None, Some(<<1>>)}}

\* the runs split_pdf is exercised with: the two page-count queries, whether
\* the temporary directory can be created, the extractions and the merge
Script(o, o2, tmp_ok, outs, om) ==
    [o |-> o, o2 |-> o2, tmp_ok |-> tmp_ok, outs |-> outs, om |-> om]
Counted(p) == Exited(Some(0), None, U32ToString(p) \o <<"\n">>)
AllExtracted == [i \in 1..(MaxPages + 2) |-> OkRun]
SplitScripts ==
    \* every extraction and the merge succeed, the page count varies
    {Script(Counted(p), OkRun, TRUE, AllExtracted, OkRun) : p \in 0..MaxPages}
    \cup {Script(SpawnFailed, OkRun, TRUE, AllExtracted, OkRun)}
    \cup {Script(Exited(Some(1), None, <<>>), o2, TRUE, AllExtracted, OkRun) :
            o2 \in {Exited(Some(1), None, <<>>),
                    Exited(Some(0), None, <<"w", "\n", "1", "\n">>)}}
    \* one extraction fails
    \cup {Script(Counted(MaxPages), OkRun, TRUE, outs, OkRun) :
            outs \in ExtractRuns(MaxPages + 2)}
    \cup {Script(Exited(None, None, <<>>), Counted(1), TRUE, outs, OkRun) :
            outs \in ExtractRuns(1)}
    \* the temporary directory or the merge fails
    \cup {Script(Counted(MaxPages), OkRun, FALSE, AllExtracted, OkRun),
          Script(Counted(MaxPages), OkRun, TRUE, AllExtracted, Exited(Some(1), None, <<>>))}

SplitPdf ==
    /\ Idle
    /\ \E input_path \in InputPaths, output_dir \in {D_d, D_new, D_bad},
          options \in RangeOptions \cup ExtractOptions \cup EveryNOptions \cup OtherOptions :
         \E s \in When(Valid(input_path), SplitScripts,
                       Script(OkRun, OkRun, TRUE, AllExtracted, OkRun)) :
           \E r \in {split_pdf(input_path, output_dir, options, s.o, s.o2, s.tmp_ok,
                               s.outs, s.om, World0)} :
             Return([cmd |-> "split_pdf", input_path |-> input_path,
                     output_dir |-> output_dir, options |-> options], r)

Next ==
    \/ CompressPdf
    \/ CheckGhostscript
    \/ GetGhostscriptVersion
    \/ MergePdfs
    \/ SplitPdf
    \/ GetPdfPageCount
    \/ ProtectPdf
    \/ UnlockPdf
    \/ CheckQpdf

Spec == Init /\ [][Next]_vars

(***************************************************************************)
(* Properties.                                                             *)
(***************************************************************************)
HasArg(p, text) == \E i \in 1..Len(p.args) : p.args[i].text = text
ArgVal(p, text) == p.args[CHOOSE i \in 1..Len(p.args) : p.args[i].text = text].val

\* which invocation a spawned process is, by its argument template
IsCountQuery(p) == HasArg(p, "-c ({}) (r) file runpdfbegin pdfpagecount = quit")
IsAltCountQuery(p) == HasArg(p, "({}) (r) file runpdfbegin pdfpagecount = quit")
IsExtraction(p) == HasArg(p, "-dFirstPage={}")
IsCompress(p) == HasArg(p, "-dPDFSETTINGS=/{}")
IsMerge(p) == p.tool = "gs" /\ HasArg(p, "-sOutputFile={}") /\ ~IsExtraction(p)
              /\ ~IsCompress(p)
IsVersion(p) == HasArg(p, "--version")
IsEncrypt(p) == HasArg(p, "--encrypt")
IsDecrypt(p) == HasArg(p, "--decrypt")

\* the process exited with a non-zero status
Failed(p) == p.code # Some(0)

Last(seq) == seq[Len(seq)]
ExistingPdfs == {P_a, P_b}

\* C1 (as stated): in every command, once an external process exits with a
\* non-zero status the command returns an error and spawns no further process.
C1_FailureIsTerminal ==
    \A i \in 1..Len(log) : Failed(log[i]) => (i = Len(log) /\ ~result.ok)

\* C1 (amended): a non-zero exit is terminal (the command returns an error and
\* spawns nothing further) for every invocation except the first page-count
\* query of get-page-count and split: when that one exits non-zero, exactly one
\* alternative page-count query is invoked as a fallback, whose own non-zero
\* exit is terminal.
C1_FailureIsTerminalButCountFallback ==
    /\ \A i \in 1..Len(log) :
         Failed(log[i]) =>
           IF IsCountQuery(log[i])
           THEN /\ i = 1
                /\ IF Len(log) = 1 THEN ~result.ok ELSE IsAltCountQuery(log[2])
           ELSE i = Len(log) /\ ~result.ok
    /\ Cardinality({i \in 1..Len(log) : IsAltCountQuery(log[i])}) <= 1
    /\ \A i \in 1..Len(log) : IsAltCountQuery(log[i]) => (i = 2 /\ Failed(log[1]))

\* C1 witness: a split whose first page-count query fails, whose fallback
\* succeeds and whose extraction then fails, ending the command
C1_Witness ==
    /\ req.cmd = "split_pdf"
    /\ Len(log) = 3
    /\ IsCountQuery(log[1]) /\ Failed(log[1])
    /\ IsAltCountQuery(log[2]) /\ ~Failed(log[2])
    /\ IsExtraction(log[3]) /\ Failed(log[3])
    /\ ~result.ok

\* C2: compress_pdf with a preset outside {screen, ebook, printer, prepress}
\* returns an error before any process is spawned: the error is a validation
\* error (the preset's own when the input is an existing PDF), no process ran
\* and no file was written, whatever the input and output paths.
C2_InvalidPresetRejectedBeforeSpawn ==
    (req.cmd = "compress_pdf"
     /\ req.preset \notin {"screen", "ebook", "printer", "prepress"})
    => /\ ~result.ok
       /\ result.err.msg \in {"File not found: {}", "File is not a PDF",
                              "Invalid preset '{}'. Valid options: {:?}"}
       /\ req.input_path \in ExistingPdfs
            => result.err = Err("Invalid preset '{}'. Valid options: {:?}",
                                <<Text(req.preset)>>)
       /\ log = <<>>
       /\ made = {}
       /\ fs = InitFs

\* C2 witness: an existing PDF, Ghostscript installed, Ghostscript's /default
\* setting as the preset
C2_Witness ==
    /\ req.cmd = "compress_pdf"
    /\ req.input_path = P_a
    /\ req.preset = "default"
    /\ IsSome(find_ghostscript)
    /\ result.err.msg = "Invalid preset '{}'. Valid options: {:?}"

\* a split that obtained the document's page count, from the first query or
\* from the alternative one
PageCounted ==
    /\ req.cmd = "split_pdf"
    /\ Len(log) >= 1
    /\ \/ ~Failed(log[1])
       \/ Len(log) >= 2 /\ IsAltCountQuery(log[2]) /\ ~Failed(log[2])

\* the page count Ghostscript printed
ReportedPages ==
    LET out == IF ~Failed(log[1]) THEN log[1].stdout ELSE log[2].stdout
    IN  Unwrap(ParseU32(Trim(Unwrap(LastLine(Trim(out))))))

Extractions == {i \in 1..Len(log) : IsExtraction(log[i])}
RangeStart == IF req.options.range_start = None THEN 1 ELSE Unwrap(req.options.range_start)
RangeEnd ==
    IF req.options.range_end = None THEN ReportedPages ELSE Unwrap(req.options.range_end)

\* C3: split_pdf in range mode on a document of P pages, start defaulting to 1
\* and end to P: when start > end, start < 1 or end > P the command returns the
\* "Invalid page range" error without extracting anything; otherwise it runs
\* one extraction, of exactly the pages (start, end) (none only when
\* Ghostscript cannot be started), and when that extraction exits with status
\* 0 the command returns exactly one output path.
C3_RangeValidation ==
    (PageCounted /\ req.options.mode = "range")
    => IF RangeStart > RangeEnd \/ RangeStart < 1 \/ RangeEnd > ReportedPages
       THEN /\ ~result.ok
            /\ result.err = Err("Invalid page range {}-{}. PDF has {} pages.",
                                <<U32V(RangeStart), U32V(RangeEnd),
                                  U32V(ReportedPages)>>)
            /\ Extractions = {}
            /\ fs = InitFs
       ELSE /\ Cardinality(Extractions) <= 1
            /\ \A i \in Extractions :
                 /\ ParseU32(ArgVal(log[i], "-dFirstPage={}")) = Some(RangeStart)
                 /\ ParseU32(ArgVal(log[i], "-dLastPage={}")) = Some(RangeEnd)
                 /\ ~Failed(log[i]) => result.ok /\ Len(result.val.output_paths) = 1
            /\ Extractions = {} => result.err = GsSpawnError
            /\ result.ok => Cardinality(Extractions) = 1

\* C3 witness: pages 2-2 of a two-page document are extracted into one file
C3_Witness ==
    /\ PageCounted /\ req.options.mode = "range"
    /\ ReportedPages = 2
    /\ req.options.range_start = Some(2) /\ req.options.range_end = None
    /\ Cardinality(Extractions) = 1
    /\ result.ok /\ Len(result.val.output_paths) = 1

\* the last process of the command exited with a non-zero status and the
\* command returned the error of that invocation
TerminalFailure == Len(log) >= 1 /\ Failed(Last(log)) /\ ~IsCountQuery(Last(log))
CarriesExitCode ==
    \E i \in 1..Len(result.err.info) : result.err.info[i] = ExitCode(Last(log).code)
CarriesNoExitCode ==
    \A i \in 1..Len(result.err.info) : result.err.info[i].kind # "exit_code"

\* C4 (as stated): the error of a failing Ghostscript invocation (compress,
\* merge, extraction, page count, version) carries the raw exit code; the error
\* of a failing qpdf invocation (encrypt, decrypt) is generic, without it.
C4_GsCarriesCodeQpdfGeneric ==
    TerminalFailure =>
      /\ ~result.ok
      /\ Last(log).tool = "gs" => CarriesExitCode
      /\ Last(log).tool = "qpdf" => CarriesNoExitCode

\* C4 (amended): the error carries the raw exit code for a failing compress or
\* merge (Ghostscript) and for a failing encrypt (qpdf); for a failing
\* extraction, alternative page-count query or version query (Ghostscript) and
\* for a failing decrypt (qpdf) it is a message without the exit code.
C4_ExitCodeOnlyForCompressMergeEncrypt ==
    TerminalFailure =>
      /\ ~result.ok
      /\ (IsCompress(Last(log)) \/ IsMerge(Last(log)) \/ IsEncrypt(Last(log)))
           => CarriesExitCode
      /\ (IsExtraction(Last(log)) \/ IsAltCountQuery(Last(log)) \/ IsVersion(Last(log))
          \/ IsDecrypt(Last(log)))
           => CarriesNoExitCode
      /\ \/ IsCompress(Last(log)) \/ IsMerge(Last(log)) \/ IsEncrypt(Last(log))
         \/ IsExtraction(Last(log)) \/ IsAltCountQuery(Last(log))
         \/ IsVersion(Last(log)) \/ IsDecrypt(Last(log))

\* C4 witness: qpdf exits with status 1 while encrypting, and the error names
\* that status
C4_Witness ==
    /\ req.cmd = "protect_pdf"
    /\ TerminalFailure
    /\ IsEncrypt(Last(log))
    /\ result.err = Err("qpdf encryption failed with exit code: {:?}",
                        <<ExitCode(Some(1))>>)

\* C5: merge_pdfs given fewer than two input paths returns the "At least 2 PDF
\* files are required" error before validating any input, checking the output
\* directory or spawning a process; given two or more it never returns that
\* error.
C5_MergeNeedsTwoInputs ==
    req.cmd = "merge_pdfs" =>
      IF Len(req.input_paths) < 2
      THEN /\ ~result.ok
           /\ result.err = Err("At least 2 PDF files are required for merging", <<>>)
           /\ log = <<>>
           /\ made = {}
           /\ fs = InitFs /\ dirs = InitDirs
      ELSE result.err.msg # "At least 2 PDF files are required for merging"

\* C5 witness: a single input that does not exist, an output path in a
\* directory that does not exist
C5_Witness ==
    /\ req.cmd = "merge_pdfs"
    /\ req.input_paths = <<P_q>>
    /\ req.output_path = P_z
    /\ result.err.msg = "At least 2 PDF files are required for merging"

MissingPaths == {P_m, P_q}

\* the input paths of a request, in the order the command validates them
RequestInputs ==
    IF req.cmd \in {"compress_pdf", "split_pdf", "get_pdf_page_count", "protect_pdf",
                    "unlock_pdf"}
    THEN <<req.input_path>>
    ELSE IF req.cmd = "merge_pdfs" /\ Len(req.input_paths) >= 2 THEN req.input_paths
    ELSE <<>>
FirstBadInput ==
    LET bad == {i \in 1..Len(RequestInputs) : RequestInputs[i] \notin ExistingPdfs}
    IN  IF bad = {} THEN None
        ELSE Some(RequestInputs[CHOOSE i \in bad : \A j \in bad : i <= j])

\* C6: compress, merge (each input, in order), split, get-page-count,
\* add-password and remove-password validate the input path before any process
\* is spawned or any file or directory is created: a path that does not exist
\* yields "File not found"; an existing path whose extension is absent or is
\* not "pdf" in any letter case yields "File is not a PDF"; a missing path
\* yields "File not found" whatever its extension.
C6_InputValidatedFirst ==
    IF IsSome(FirstBadInput)
    THEN /\ ~result.ok
         /\ result.err = IF Unwrap(FirstBadInput) \in MissingPaths
                         THEN Err("File not found: {}", <<PathV(Unwrap(FirstBadInput))>>)
                         ELSE Err("File is not a PDF", <<>>)
         /\ log = <<>>
         /\ made = {}
         /\ fs = InitFs /\ dirs = InitDirs
    ELSE result.err.msg \notin {"File not found: {}", "File is not a PDF"}

\* C6 witness: splitting a missing file into a directory that would have to be
\* created
C6_Witness ==
    /\ req.cmd = "split_pdf"
    /\ req.input_path = P_m
    /\ req.output_dir = D_new
    /\ result.err.msg = "File not found: {}"
    /\ dirs = InitDirs

\* the output path a command handed to its tool
OutputArg(p) ==
    IF p.tool = "gs" THEN ArgVal(p, "-sOutputFile={}") ELSE Last(p.args).val
SuffixOf(cmd) ==
    IF cmd = "compress_pdf" THEN <<"-","c","o","m","p","r","e","s","s","e","d">>
    ELSE IF cmd = "protect_pdf" THEN <<"-","p","r","o","t","e","c","t","e","d">>
    ELSE <<"-","u","n","l","o","c","k","e","d">>
\* <parent directory>/<stem><suffix>.pdf for the two existing PDFs
DerivedPath(input, suffix) ==
    IF input = P_a
    THEN <<"d", (IF os = "windows" THEN "\\" ELSE "/"), "a">> \o suffix
         \o <<".","p","d","f">>
    ELSE <<"b", ".", "x">> \o suffix \o <<".","p","d","f">>
WritesOutput ==
    /\ req.cmd \in {"compress_pdf", "protect_pdf", "unlock_pdf"}
    /\ Len(log) = 1

\* C7: compress_pdf, protect_pdf and unlock_pdf called without an output path
\* write to <parent directory of the input>/<input file stem><suffix>.pdf, the
\* suffix being -compressed, -protected and -unlocked, and return that path as
\* output_path; called with an output path they write to it and return it
\* unchanged.
C7_OutputPath ==
    WritesOutput =>
      LET expected == IF req.output_path = None
                      THEN DerivedPath(req.input_path, SuffixOf(req.cmd))
                      ELSE Unwrap(req.output_path)
      IN  /\ OutputArg(log[1]) = expected
          /\ result.ok => result.val.output_path = expected

\* C7 witness: b.x.PDF protected without an output path
C7_Witness ==
    /\ WritesOutput
    /\ req.cmd = "protect_pdf"
    /\ req.input_path = P_b
    /\ req.output_path = None
    /\ result.ok
    /\ result.val.output_path = <<"b",".","x","-","p","r","o","t","e","c","t","e","d",
                                  ".","p","d","f">>

\* C8: a successful compress_pdf returns the input's size before the run as
\* original, the output's size after the run as compressed, and
\* savings_percent = (original - compressed) / original * 100, which is 0 when
\* original is 0 and negative when the output is larger than the input.
C8_SavingsPercent ==
    (req.cmd = "compress_pdf" /\ result.ok) =>
      LET original == InitFs[req.input_path]
          compressed == fs[result.val.output_path]
          sp == result.val.savings_percent
      IN  /\ result.val.original_size = original
          /\ result.val.compressed_size = compressed
          /\ sp.den > 0
          /\ IF original = 0 THEN sp.num = 0
             ELSE sp.num * original = (original - compressed) * 100 * sp.den
          /\ (original > 0 /\ compressed > original) => sp.num < 0

\* C8 witness: a 4-byte input compressed into 6 bytes, savings of -50 percent
C8_Witness ==
    /\ req.cmd = "compress_pdf" /\ result.ok
    /\ result.val.original_size = 4
    /\ result.val.compressed_size = 6
    /\ result.val.savings_percent.num * 2 = -100 * result.val.savings_percent.den

\* the tool is neither on the PATH nor at one of the hardcoded paths
GsAbsent == "gs" \notin onPath
            /\ \A i \in 1..Len(GsCandidates) : GsCandidates[i] \notin installed
QpdfAbsent == "qpdf" \notin onPath
              /\ \A i \in 1..Len(QpdfCandidates) : QpdfCandidates[i] \notin installed
\* the request passes the checks made before the tool is looked for
ReachesGs ==
    \/ req.cmd = "compress_pdf" /\ req.input_path \in ExistingPdfs
       /\ req.preset \in {"screen", "ebook", "printer", "prepress"}
    \/ req.cmd = "merge_pdfs" /\ Len(req.input_paths) >= 2 /\ FirstBadInput = None
       /\ req.output_path # P_z
    \/ req.cmd = "split_pdf" /\ req.input_path \in ExistingPdfs /\ req.output_dir # D_bad
    \/ req.cmd = "get_pdf_page_count" /\ req.input_path \in ExistingPdfs
    \/ req.cmd = "get_ghostscript_version"
ReachesQpdf ==
    \/ req.cmd = "protect_pdf" /\ req.input_path \in ExistingPdfs
       /\ req.user_password # <<>>
    \/ req.cmd = "unlock_pdf" /\ req.input_path \in ExistingPdfs
HintFor(tool) ==
    IF os = "macos" THEN "Install with: brew install " \o tool
    ELSE IF os = "linux" THEN "Install with: sudo apt install " \o tool
    ELSE IF tool = "ghostscript"
         THEN "Download from: https://ghostscript.com/releases/gsdnld.html"
         ELSE "Download from: https://github.com/qpdf/qpdf/releases"

\* C9: when discovery finds a tool neither under its command name nor at a
\* hardcoded install path of the OS, every command that gets as far as needing
\* it returns "<tool> not found." followed by the install hint of the OS, and
\* no process is spawned.
C9_ToolNotFound ==
    /\ (GsAbsent /\ ReachesGs)
         => /\ ~result.ok
            /\ result.err = Err("Ghostscript not found. {}", <<Text(HintFor("ghostscript"))>>)
            /\ log = <<>>
    /\ (QpdfAbsent /\ ReachesQpdf)
         => /\ ~result.ok
            /\ result.err = Err("qpdf not found. {}", <<Text(HintFor("qpdf"))>>)
            /\ log = <<>>
    /\ \A i \in 1..Len(log) : /\ log[i].tool = "gs" => ~GsAbsent
                              /\ log[i].tool = "qpdf" => ~QpdfAbsent

\* C9 witness: compressing on Windows with Ghostscript installed only where
\* discovery does not look
C9_Witness ==
    /\ req.cmd = "compress_pdf" /\ req.input_path = P_a /\ req.preset = "screen"
    /\ os = "windows"
    /\ installed = {"/snap/bin/gs", "/snap/bin/qpdf"}
    /\ result.err.msg = "Ghostscript not found. {}"

\* C10 (as stated): protect_pdf with an empty user password and unlock_pdf
\* with an empty password each return an error on a valid input PDF, without
\* invoking qpdf and without writing an output file.
C10_EmptyPasswordRejected ==
    /\ (req.cmd = "protect_pdf" /\ req.input_path \in ExistingPdfs
        /\ req.user_password = <<>>)
         => ~result.ok /\ log = <<>> /\ fs = InitFs
    /\ (req.cmd = "unlock_pdf" /\ req.input_path \in ExistingPdfs /\ req.password = <<>>)
         => ~result.ok /\ log = <<>> /\ fs = InitFs

\* C10 (amended): protect_pdf with an empty user password returns "Password
\* cannot be empty" on a valid input PDF without invoking qpdf and without
\* writing a file; unlock_pdf makes no such check: with an empty password it
\* never returns that error, and unless qpdf is missing or cannot be started it
\* invokes qpdf --decrypt with the empty password and succeeds when qpdf does.
C10_EmptyPasswordRejectedByProtectOnly ==
    /\ (req.cmd = "protect_pdf" /\ req.input_path \in ExistingPdfs
        /\ req.user_password = <<>>)
         => /\ ~result.ok
            /\ result.err = Err("Password cannot be empty", <<>>)
            /\ log = <<>>
            /\ fs = InitFs
    /\ (req.cmd = "unlock_pdf" /\ req.input_path \in ExistingPdfs /\ req.password = <<>>)
         => /\ result.err.msg # "Password cannot be empty"
            /\ \/ /\ log = <<>>
                  /\ \/ QpdfAbsent /\ result.err.msg = "qpdf not found. {}"
                     \/ ~QpdfAbsent /\ result.err = QpdfSpawnError
               \/ /\ Len(log) = 1
                  /\ IsDecrypt(log[1])
                  /\ ArgVal(log[1], "--password={}") = <<>>
                  /\ ~Failed(log[1]) =>
                       \/ result.ok
                       \/ result.err.msg = "Failed to read output file: {}"

\* C10 witness: unlock_pdf with an empty password runs qpdf and returns the
\* unlocked file
C10_Witness ==
    /\ req.cmd = "unlock_pdf"
    /\ req.input_path = P_a
    /\ req.password = <<>>
    /\ Len(log) = 1 /\ IsDecrypt(log[1]) /\ ~Failed(log[1])
    /\ result.ok
    /\ result.val.output_path \in DOMAIN fs

\* C11: split_pdf called with a mode other than "range", "extract" and
\* "every-n" returns an error, extracts no page and writes no output, whatever
\* the other options are; once the input is validated, the output directory
\* exists and the page count is known, the error is "Invalid split mode".
C11_InvalidSplitMode ==
    (req.cmd = "split_pdf" /\ req.options.mode \notin {"range", "extract", "every-n"})
    => /\ ~result.ok
       /\ result.val = <<>>
       /\ Extractions = {}
       /\ fs = InitFs
       /\ PageCounted =>
            result.err = Err("Invalid split mode '{}'. Valid options: range, extract, every-n",
                             <<Text(req.options.mode)>>)

\* C11 witness: mode "Range" with options that would be a valid range request
C11_Witness ==
    /\ req.cmd = "split_pdf"
    /\ req.options.mode = "Range"
    /\ req.options.range_start = Some(1) /\ req.options.pages = Some(<<1>>)
    /\ PageCounted /\ ReportedPages = 2
    /\ result.err.msg = "Invalid split mode '{}'. Valid options: range, extract, every-n"

\* the processes of a split come after its page-count queries
CountQueries == IF ~Failed(log[1]) THEN 1 ELSE 2
Merges == {i \in 1..Len(log) : IsMerge(log[i])}
MergeInputs(p) == [j \in 1..(Len(p.args) - 5) |-> p.args[j + 5].val]
InputArg(p) == Last(p.args).val
NothingExtracted == Extractions = {} /\ Merges = {} /\ fs = InitFs
Requested == Unwrap(req.options.pages)

\* C12: split_pdf in extract mode on a document of P pages returns an error
\* before any extraction when the page list is missing, is empty or holds a
\* page < 1 or > P. Otherwise it extracts the listed pages one at a time in
\* list order, each as the range (page, page), stopping at the first failure;
\* a list of one page is then copied to the output without a merge, a longer
\* list is assembled by one merge whose inputs are the per-page files in list
\* order; on success, every extraction having written its file, the one output
\* holds the requested pages in the requested order, repeated and
\* non-ascending page numbers included.
C12_ExtractMode ==
    (PageCounted /\ req.options.mode = "extract") =>
      IF req.options.pages = None
      THEN /\ result.err = Err("Pages list required for extract mode", <<>>)
           /\ NothingExtracted
      ELSE IF Requested = <<>>
      THEN result.err = Err("No pages specified", <<>>) /\ NothingExtracted
      ELSE IF \E i \in 1..Len(Requested) :
                Requested[i] < 1 \/ Requested[i] > ReportedPages
      THEN /\ ~result.ok
           /\ result.err.msg = "Invalid page number {}. PDF has {} pages."
           /\ NothingExtracted
      ELSE LET k == CountQueries
               m == Cardinality(Extractions)
               N == Len(Requested)
           IN  /\ Extractions = (k + 1)..(k + m)
               /\ m <= N
               /\ \A j \in 1..m :
                    /\ ParseU32(ArgVal(log[k + j], "-dFirstPage={}")) = Some(Requested[j])
                    /\ ParseU32(ArgVal(log[k + j], "-dLastPage={}")) = Some(Requested[j])
                    /\ InputArg(log[k + j]) = req.input_path
                    /\ j < m => ~Failed(log[k + j])
               /\ Len(log) = k + m + Cardinality(Merges)
               /\ \A i \in Merges :
                    /\ N >= 2 /\ m = N /\ i = k + N + 1
                    /\ MergeInputs(log[i]) = [j \in 1..N |-> OutputArg(log[k + j])]
               /\ result.ok =>
                    /\ m = N
                    /\ Cardinality(Merges) = IF N = 1 THEN 0 ELSE 1
                    /\ Len(result.val.output_paths) = 1
                    /\ \A i \in Merges : OutputArg(log[i]) = result.val.output_paths[1]
                    /\ (\A j \in 1..N : log[k + j].size # None) =>
                         docs[result.val.output_paths[1]]
                           = [j \in 1..N |-> [of |-> req.input_path, no |-> Requested[j]]]

\* C12 witness: pages 1, 2, 1, 2 of a two-page document, assembled by a merge
C12_Witness ==
    /\ PageCounted /\ req.options.mode = "extract"
    /\ req.options.pages = Some(<<1, 2, 1, 2>>)
    /\ Cardinality(Extractions) = 4 /\ Cardinality(Merges) = 1
    /\ result.ok
    /\ \A i \in Extractions : log[i].size # None
    /\ Len(docs[result.val.output_paths[1]]) = 4

\* C13: merge_pdfs with N >= 2 inputs reports the error of the first invalid
\* input in list order; with all inputs valid it rejects an output path whose
\* non-empty parent directory does not exist; only then does it invoke
\* Ghostscript, exactly once (not at all only when Ghostscript is missing or
\* cannot be started), with the output-file flag followed by the N input paths
\* in the caller's order, none dropped, duplicated or reordered.
C13_MergeOrder ==
    (req.cmd = "merge_pdfs" /\ Len(req.input_paths) >= 2) =>
      LET N == Len(req.input_paths) IN
      IF IsSome(FirstBadInput)
      THEN /\ result.err.msg = IF Unwrap(FirstBadInput) \in MissingPaths
                               THEN "File not found: {}" ELSE "File is not a PDF"
           /\ log = <<>>
      ELSE IF req.output_path = P_z
      THEN /\ result.err = Err("Output directory does not exist: {}", <<PathV(<<"z">>)>>)
           /\ log = <<>>
           /\ fs = InitFs
      ELSE /\ Len(log) <= 1
           /\ log = <<>> =>
                \/ GsAbsent /\ result.err.msg = "Ghostscript not found. {}"
                \/ ~GsAbsent /\ result.err = GsSpawnError
           /\ \A i \in 1..Len(log) :
                /\ log[i].tool = "gs"
                /\ Len(log[i].args) = 5 + N
                /\ log[i].args[5] = Arg("-sOutputFile={}", req.output_path)
                /\ \A j \in 1..N : log[i].args[5 + j] = Arg("{}", req.input_paths[j])
           /\ result.ok =>
                /\ Len(log) = 1
                /\ result.val.output_path = req.output_path
                /\ log[1].size # None =>
                     docs[req.output_path] = [j \in 1..N |-> Whole(req.input_paths[j])]

\* C13 witness: b.x.PDF, d/a.pdf and b.x.PDF again merged into r.pdf, whose
\* parent directory is the empty path
C13_Witness ==
    /\ req.cmd = "merge_pdfs"
    /\ req.input_paths = <<P_b, P_a, P_b>>
    /\ req.output_path = P_r
    /\ result.ok
    /\ Len(log) = 1 /\ Len(log[1].args) = 8

ChunkSize == IF req.options.every_n = None THEN 1 ELSE Unwrap(req.options.every_n)
\* the last characters of a path: _part<j>.pdf
IsPartName(path, j) ==
    LET tail == <<"_","p","a","r","t">> \o U32ToString(j) \o <<".","p","d","f">>
    IN  Len(path) > Len(tail)
        /\ SubSeq(path, Len(path) - Len(tail) + 1, Len(path)) = tail

\* C14: split_pdf in every-n mode with n >= 1 (1 when absent) on a document of
\* P pages runs extraction j on the pages (j-1)n+1 .. min(jn, P), for j = 1, 2,
\* ... in that order, so that the ranges are consecutive, disjoint, of n pages
\* each but possibly the last, and cover 1..P once; when all succeed it returns
\* ceil(P / n) output paths named part1, part2, ... in that order (none when
\* P = 0); when extraction k fails it returns an error and starts no further
\* extraction.
C14_EveryNChunks ==
    (PageCounted /\ req.options.mode = "every-n" /\ ChunkSize >= 1) =>
      LET n == ChunkSize
          P == ReportedPages
          k == CountQueries
          m == Cardinality(Extractions)
          chunks == (P + n - 1) \div n
      IN  /\ Extractions = (k + 1)..(k + m)
          /\ Len(log) = k + m
          /\ m <= chunks
          /\ \A j \in 1..m :
               /\ ParseU32(ArgVal(log[k + j], "-dFirstPage={}")) = Some((j - 1) * n + 1)
               /\ ParseU32(ArgVal(log[k + j], "-dLastPage={}"))
                    = Some(IF j * n < P THEN j * n ELSE P)
               /\ InputArg(log[k + j]) = req.input_path
               /\ IsPartName(OutputArg(log[k + j]), j)
               /\ j < m => ~Failed(log[k + j])
          /\ result.ok <=> (m = chunks /\ \A j \in 1..m : ~Failed(log[k + j]))
          /\ result.ok =>
               /\ result.val.output_paths = [j \in 1..chunks |-> OutputArg(log[k + j])]
               /\ \A j \in 1..chunks :
                    log[k + j].size # None =>
                      docs[result.val.output_paths[j]]
                        = [i \in 1..((IF j * n < P THEN j * n ELSE P) - (j - 1) * n) |->
                             [of |-> req.input_path, no |-> (j - 1) * n + i]]

\* C14 witness: a three-page document split every 2 pages into pages 1-2 and
\* page 3
C14_Witness ==
    /\ PageCounted /\ req.options.mode = "every-n"
    /\ req.options.every_n = Some(2)
    /\ ReportedPages = 3
    /\ result.ok
    /\ Len(result.val.output_paths) = 2
    /\ Len(docs[result.val.output_paths[2]]) = 1

\* a pass of the every-n loop in a build that wraps on overflow
WrappingPass == /\ loop.pc = "while" /\ ~loop.checks
                /\ loop'.pc \in {"while", "error"}
                /\ loop' # loop

\* C15 (as stated): with start + n - 1 and end + 1 computed modulo 2^32, for
\* every u32 n >= 1 and page count, every pass of the every-n loop issues a
\* range with start <= end <= page count and leaves start strictly greater
\* than it was (so that the loop exits after finitely many passes).
C15_StartIncreasesRangesValid ==
    [][WrappingPass =>
         /\ U32Le(loop.start, loop'.end)
         /\ U32Le(loop'.end, loop.total_pages)
         /\ loop'.pc = "while" => U32Lt(loop.start, loop'.start)]_vars

\* C15 witness: with n = 2^31 and 2^32 - 2 pages, in a build that wraps, the
\* loop is back at start = 1 after two passes, the second of which issued the
\* range (2^31 + 1, 0)
C15_Witness ==
    /\ loop.pc = "while" /\ ~loop.checks
    /\ loop.n = U32(Half \div 2, 0)
    /\ loop.total_pages = U32(Half - 1, Half - 2)
    /\ loop.part = 3
    /\ loop.end = U32Of(0)
    /\ loop.start = U32Of(1)

====
